---- MODULE Spec2Model ----
(***************************************************************************)
(* Orchestration core of contract-ai: the error classifier and retry loop  *)
(* of AgentCoreWrapper, the semaphore-bounded batch of                     *)
(* BatchProcessingAgent and the multi-agent workflows of OrchestratorAgent.*)
(*                                                                         *)
(* Strings the code inspects character by character (error messages) are   *)
(* sequences of one-character strings; Python's 0-based indices are kept   *)
(* in the data (contract_index) while sequences are 1-based.               *)
(***************************************************************************)
EXTENDS Integers, Naturals, Sequences, FiniteSets, TLC

\* ---- bounds ----
MaxContracts == 3
MaxConcurrent == 2
MaxRetries == 3

VARIABLES
    \* is_retryable_error called on one error
    cls_error, cls_result,
    \* one execute_with_retry call
    max_retries, retry_delay_seconds, request_ok, r_pc, attempt, last_error,
    attempt_log, sleeps, response, live,
    \* one process_batch call
    contracts, max_concurrent, b_pc, semaphore, tasks, t_pc, t_return,
    t_attempts, completed, batch_result,
    \* one orchestrate_multi_agent_workflow call
    workflow_type, user_id, w_pc, results, fanout, invoked, memory_stores,
    wf_result,
    \* one orchestrate call
    request_type, o_user_id, o_pc, agent_result, o_invoked, o_memory_stores,
    orch_result,
    \* one _analyze_with_gateway_tools call inside a batch task
    tool_outcomes, g_pc, tool_results, gw_result, gw_statistics

clsVars == <<cls_error, cls_result>>
retryVars == <<max_retries, retry_delay_seconds, request_ok, r_pc, attempt,
               last_error, attempt_log, sleeps, response, live>>
batchVars == <<contracts, max_concurrent, b_pc, semaphore, tasks, t_pc,
               t_return, t_attempts, completed, batch_result>>
wfVars == <<workflow_type, user_id, w_pc, results, fanout, invoked, memory_stores,
            wf_result>>
orchVars == <<request_type, o_user_id, o_pc, agent_result, o_invoked,
              o_memory_stores, orch_result>>
gwVars == <<tool_outcomes, g_pc, tool_results, gw_result, gw_statistics>>
vars == <<clsVars, retryVars, batchVars, wfVars, orchVars, gwVars>>

\* ---- strings ----
UpperChars == <<"A", "B", "C", "D", "E", "F", "G", "H", "I", "J", "K", "L", "M", "N", "O", "P", "Q", "R", "S", "T", "U", "V", "W", "X", "Y", "Z">>
LowerChars == <<"a", "b", "c", "d", "e", "f", "g", "h", "i", "j", "k", "l", "m", "n", "o", "p", "q", "r", "s", "t", "u", "v", "w", "x", "y", "z">>

\* str.lower() on one character, then on a whole string
lower_char(c) ==
    IF \E i \in 1..Len(UpperChars) : UpperChars[i] = c
    THEN LowerChars[CHOOSE i \in 1..Len(UpperChars) : UpperChars[i] = c]
    ELSE c

lower(s) == [i \in 1..Len(s) |-> lower_char(s[i])]

\* Python's `pattern in s` for strings: pattern occurs as a contiguous run
contains(s, pattern) ==
    \E k \in 0..(Len(s) - Len(pattern)) :
        \A j \in 1..Len(pattern) : s[k + j] = pattern[j]

\* variant: the pattern list also has 'failed'
retryable_patterns_with_failed ==
    << <<"t", "h", "r", "o", "t", "t", "l", "i", "n", "g">>,
       <<"r", "a", "t", "e", " ", "l", "i", "m", "i", "t">>,
       <<"s", "e", "r", "v", "i", "c", "e", " ", "u", "n", "a", "v", "a", "i", "l", "a", "b", "l", "e">>,
       <<"u", "n", "a", "v", "a", "i", "l", "a", "b", "l", "e">>,
       <<"t", "i", "m", "e", "o", "u", "t">>,
       <<"c", "o", "n", "n", "e", "c", "t", "i", "o", "n">>,
       <<"n", "e", "t", "w", "o", "r", "k">>,
       <<"t", "e", "m", "p", "o", "r", "a", "r">>,
       <<"t", "r", "a", "n", "s", "i", "e", "n", "t">>,
       <<"f", "a", "i", "l", "e", "d">> >>

retryable_patterns ==
    << <<"t", "h", "r", "o", "t", "t", "l", "i", "n", "g">>,
       <<"r", "a", "t", "e", " ", "l", "i", "m", "i", "t">>,
       <<"s", "e", "r", "v", "i", "c", "e", " ", "u", "n", "a", "v", "a", "i", "l", "a", "b", "l", "e">>,
       <<"u", "n", "a", "v", "a", "i", "l", "a", "b", "l", "e">>,
       <<"t", "i", "m", "e", "o", "u", "t">>,
       <<"c", "o", "n", "n", "e", "c", "t", "i", "o", "n">>,
       <<"n", "e", "t", "w", "o", "r", "k">>,
       <<"t", "e", "m", "p", "o", "r", "a", "r">>,
       <<"t", "r", "a", "n", "s", "i", "e", "n", "t">> >>

retryable_types_with_validation ==
    << "TimeoutError", "ConnectionError", "ThrottlingException",
       "ServiceUnavailableException", "ValidationError" >>

retryable_types ==
    << "TimeoutError", "ConnectionError", "ThrottlingException",
       "ServiceUnavailableException" >>

SeqToSet(s) == { s[i] : i \in 1..Len(s) }

\* ---- errors the model draws from ----
ErrorTypes ==
    { "TimeoutError", "ConnectionError", "ThrottlingException",
      "ServiceUnavailableException", "ValidationError", "ValueError",
      "ConnectionResetError", "AgentExecutionError" }

MessageCores ==
    { <<"t", "h", "r", "o", "t", "t", "l", "i", "n", "g">>,
      <<"R", "a", "t", "e", " ", "L", "i", "m", "i", "t">>,
      <<"S", "E", "R", "V", "I", "C", "E", " ", "U", "N", "A", "V", "A", "I", "L", "A", "B", "L", "E">>,
      <<"U", "n", "a", "v", "a", "i", "l", "a", "b", "l", "e">>,
      <<"T", "i", "m", "e", "o", "u", "t">>,
      <<"c", "o", "n", "n", "e", "c", "t", "i", "o", "n">>,
      <<"N", "E", "T", "W", "O", "R", "K">>,
      <<"t", "e", "m", "p", "o", "r", "a", "r", "i", "l", "y">>,
      <<"T", "r", "a", "n", "s", "i", "e", "n", "t">>,
      <<"p", "e", "r", "m", "i", "s", "s", "i", "o", "n", " ", "d", "e", "n", "i", "e", "d">>,
      <<"t", "i", "m", "e", "d", " ", "o", "u", "t">>,
      <<"t", "h", "r", "o", "t", "t", "l", "e", "d">>,
      <<"r", "a", "t", "e", " ", "e", "x", "c", "e", "e", "d", "e", "d">>,
      <<"i", "n", "v", "a", "l", "i", "d", " ", "i", "n", "p", "u", "t">>,
      <<"n", "e", "t", " ", "w", "o", "r", "k">>,
      <<>> }

MessagePrefixes == { <<>>, <<"E", ":", " ">> }

MessageSuffixes == { <<>>, <<"!">> }

Messages ==
    { p \o c \o s : p \in MessagePrefixes, c \in MessageCores, s \in MessageSuffixes }

Errors == [type : ErrorTypes, msg : Messages]

\* variants of the classifier: a case-sensitive match, a default of True and
\* a type list that also names ValidationError
is_retryable_error_case_sensitive(error) ==
    \/ \E p \in 1..Len(retryable_patterns) : contains(error.msg, retryable_patterns[p])
    \/ error.type \in SeqToSet(retryable_types)

is_retryable_error_default_true(error) == TRUE

\* ---- AgentCoreWrapper.is_retryable_error ----
is_retryable_error(error) ==
    LET error_str == lower(error.msg)
        error_type == error.type
    IN  IF \E p \in 1..Len(retryable_patterns) : contains(error_str, retryable_patterns[p])
        THEN TRUE
        ELSE IF error_type \in SeqToSet(retryable_types)
        THEN TRUE
        ELSE FALSE

Classification(error) == IF is_retryable_error(error) THEN "Retryable" ELSE "Fatal"

\* ---- errors and attempt outcomes of the retry loop ----
msg_permission_denied == <<"p", "e", "r", "m", "i", "s", "s", "i", "o", "n", " ", "d", "e", "n", "i", "e", "d">>
msg_invalid_timeout == <<"I", "n", "v", "a", "l", "i", "d", " ", "t", "i", "m", "e", "o", "u", "t", " ", "v", "a", "l", "u", "e">>
msg_rate_exceeded == <<"R", "a", "t", "e", " ", "e", "x", "c", "e", "e", "d", "e", "d">>
msg_bad_field == <<"m", "i", "s", "s", "i", "n", "g", " ", "f", "i", "e", "l", "d">>
msg_failed_to_convert ==
    <<"F", "a", "i", "l", "e", "d", " ", "t", "o", " ", "c", "o", "n", "v", "e", "r", "t", " ",
      "r", "e", "s", "p", "o", "n", "s", "e", ":", " ">>

RetryErrorTypes == { "ThrottlingException", "ValidationError", "AgentExecutionError" }

RetryMessages == { msg_permission_denied, msg_invalid_timeout, msg_rate_exceeded }

RetryErrors == [type : RetryErrorTypes, msg : RetryMessages]

NoError == [type |-> "None", msg |-> <<>>]

\* asyncio.wait_for ran out of time: asyncio.TimeoutError(), whose str() is empty
TimeoutOutcome ==
    [kind |-> "timeout", success |-> FALSE,
     error |-> [type |-> "TimeoutError", msg |-> <<>>]]

\* analyze_contract returned a response mapping with the given success flag
ReturnOutcome(ok) == [kind |-> "return", success |-> ok, error |-> NoError]

\* analyze_contract returned a failure response whose error text is m
ReturnFailureOutcome(m) ==
    [kind |-> "return", success |-> FALSE, error |-> [type |-> "None", msg |-> m]]

\* analyze_contract returned a successful response whose conversion raises
UnconvertibleOutcome(m) ==
    [kind |-> "unconvertible", success |-> TRUE,
     error |-> [type |-> "ResponseConversionError", msg |-> msg_failed_to_convert \o m]]

\* analyze_contract raised
RaiseOutcome(e) == [kind |-> "raise", success |-> FALSE, error |-> e]

AttemptOutcomes ==
    {TimeoutOutcome} \cup { ReturnOutcome(ok) : ok \in BOOLEAN }
      \cup { ReturnFailureOutcome(msg_invalid_timeout) }
      \cup { UnconvertibleOutcome(m) : m \in {msg_bad_field, msg_invalid_timeout} }
      \cup { RaiseOutcome(e) : e \in RetryErrors }

\* ---- AgentCoreWrapper.execute_with_retry ----
\* variant: one iteration too many
loop_continues_off_by_one(att, maxr) == att <= maxr

\* `for attempt in range(self.max_retries)` has another iteration
loop_continues(att, maxr) == att < maxr

\* `if attempt < self.max_retries - 1` guarding the backoff sleep
sleeps_before_next(att, maxr) == att < maxr - 1

\* variant: the exponent counts the attempts from one
backoff_delay_one_indexed(base, att) == base * (2 ^ (att + 1))

\* delay = self.retry_delay_seconds * (2 ** attempt)
backoff_delay(base, att) == base * (2 ^ att)

\* variant: the loop goes on to the next iteration after a returned response
after_return_continue(o, att) == [pc |-> "loop", attempt |-> att + 1]

\* variant: a returned failure response is classified by its error text and
\* retried when that is retryable
after_return_failure_classified(o, att) ==
    IF o.success \/ ~is_retryable_error(o.error)
    THEN [pc |-> "done", attempt |-> att]
    ELSE [pc |-> "loop", attempt |-> att + 1]

\* `return agentcore_response` inside the loop: the call is over, whatever
\* the success flag of the response
after_return(o, att) == [pc |-> "done", attempt |-> att]

\* variant: a timeout ends the loop like a fatal error
timeout_is_fatal == FALSE

\* `except asyncio.TimeoutError`: no classification and no break, the loop
\* goes on to its next iteration
timeout_is_retried == TRUE

\* variant: the first error is kept
observed_error_first(prev, e) == IF prev = NoError THEN e ELSE prev

\* `last_error = e` in both except branches
observed_error(prev, e) == e

\* variant: the loop never breaks
aborts_on_never(e) == FALSE

\* `if not self.is_retryable_error(e): break`
aborts_on(e) == ~is_retryable_error(e)

\* the response returned for a failed request conversion
request_conversion_failure ==
    [success |-> FALSE, source |-> "request_conversion", error_type |-> "None",
     error |-> <<>>, attempts_reported |-> 0]

\* convert_strands_response_to_agentcore on a convertible response
convert_strands_response_to_agentcore(o) ==
    [success |-> o.success, source |-> "agent", error_type |-> "None",
     error |-> IF o.success THEN <<>> ELSE o.error.msg, attempts_reported |-> 0]

\* the response built after the loop
retries_exhausted_response(err, maxr) ==
    [success |-> FALSE, source |-> "retries_exhausted",
     error_type |-> IF err = NoError THEN "Unknown" ELSE err.type,
     error |-> err.msg, attempts_reported |-> maxr]

NoResponse ==
    [success |-> FALSE, source |-> "none", error_type |-> "None",
     error |-> <<>>, attempts_reported |-> 0]

RetryInit ==
    /\ max_retries \in 0..MaxRetries
    /\ retry_delay_seconds \in {1, 2}
    /\ request_ok \in BOOLEAN
    /\ r_pc = "convert_request"
    /\ attempt = 0
    /\ last_error = NoError
    /\ attempt_log = <<>>
    /\ sleeps = <<>>
    /\ response = NoResponse
    /\ live = 0

\* convert_agentcore_request_to_strands, and the early return when it raises
ConvertRequest ==
    /\ r_pc = "convert_request"
    /\ IF request_ok
       THEN /\ r_pc' = "loop"
            /\ UNCHANGED response
       ELSE /\ r_pc' = "done"
            /\ response' = request_conversion_failure
    /\ UNCHANGED <<max_retries, retry_delay_seconds, request_ok, attempt,
                   last_error, attempt_log, sleeps, live>>
    /\ UNCHANGED <<clsVars, batchVars, wfVars, orchVars, gwVars>>

\* one iteration of the retry loop, the agent's behaviour being o
Attempt(o) ==
    /\ r_pc = "loop"
    /\ loop_continues(attempt, max_retries)
    /\ attempt_log' = Append(attempt_log, o)
    /\ IF o.kind = "return"
       THEN /\ response' = convert_strands_response_to_agentcore(o)
            /\ r_pc' = after_return(o, attempt).pc
            /\ attempt' = after_return(o, attempt).attempt
            /\ UNCHANGED <<last_error, sleeps, live>>
       ELSE IF o.kind = "timeout"
       THEN \* wait_for cancels the future of run_in_executor; the executor
            \* thread that runs analyze_contract is not interrupted
            /\ last_error' = observed_error(last_error, o.error)
            /\ live' = live + 1
            /\ IF timeout_is_retried
               THEN /\ sleeps' = IF sleeps_before_next(attempt, max_retries)
                                 THEN Append(sleeps,
                                             backoff_delay(retry_delay_seconds, attempt))
                                 ELSE sleeps
                    /\ attempt' = attempt + 1
                    /\ UNCHANGED r_pc
               ELSE /\ r_pc' = "break"
                    /\ UNCHANGED <<attempt, sleeps>>
            /\ UNCHANGED response
       ELSE /\ last_error' = observed_error(last_error, o.error)
            /\ UNCHANGED live
            /\ IF aborts_on(o.error)
               THEN /\ r_pc' = "break"
                    /\ UNCHANGED <<attempt, sleeps>>
               ELSE /\ sleeps' = IF sleeps_before_next(attempt, max_retries)
                                 THEN Append(sleeps, backoff_delay(retry_delay_seconds, attempt))
                                 ELSE sleeps
                    /\ attempt' = attempt + 1
                    /\ UNCHANGED r_pc
            /\ UNCHANGED response
    /\ UNCHANGED <<max_retries, retry_delay_seconds, request_ok>>
    /\ UNCHANGED <<clsVars, batchVars, wfVars, orchVars, gwVars>>

\* the code after the loop: reached by `break` or when range() is used up
GiveUp ==
    /\ \/ r_pc = "break"
       \/ r_pc = "loop" /\ ~loop_continues(attempt, max_retries)
    /\ response' = retries_exhausted_response(last_error, max_retries)
    /\ r_pc' = "done"
    /\ UNCHANGED <<max_retries, retry_delay_seconds, request_ok, attempt,
                   last_error, attempt_log, sleeps, live>>
    /\ UNCHANGED <<clsVars, batchVars, wfVars, orchVars, gwVars>>

\* analyze_contract ends in an executor thread whose attempt has timed out
ThreadEnds ==
    /\ live > 0
    /\ live' = live - 1
    /\ UNCHANGED <<max_retries, retry_delay_seconds, request_ok, r_pc, attempt,
                   last_error, attempt_log, sleeps, response>>
    /\ UNCHANGED <<clsVars, batchVars, wfVars, orchVars, gwVars>>

RetryNext ==
    \/ ConvertRequest
    \/ \E o \in AttemptOutcomes : Attempt(o)
    \/ GiveUp
    \/ ThreadEnds

\* ---- BatchProcessingAgent ----
\* A contract of the batch: whether it is a mapping at all, whether it has
\* 'text', whether it has 's3_bucket' and 's3_key', and how its analysis ends.
ContractInputs ==
    { [is_mapping |-> TRUE,  has_text |-> TRUE,  has_s3 |-> FALSE, analysis |-> "ok"],
      [is_mapping |-> TRUE,  has_text |-> TRUE,  has_s3 |-> FALSE, analysis |-> "raises"],
      [is_mapping |-> TRUE,  has_text |-> TRUE,  has_s3 |-> FALSE,
       analysis |-> "raises_retryable"],
      [is_mapping |-> TRUE,  has_text |-> FALSE, has_s3 |-> TRUE,  analysis |-> "ok"],
      [is_mapping |-> TRUE,  has_text |-> FALSE, has_s3 |-> FALSE, analysis |-> "ok"],
      [is_mapping |-> FALSE, has_text |-> FALSE, has_s3 |-> FALSE, analysis |-> "ok"] }

\* one contract for each way a task leaves the guarded section: a returned
\* success, a returned failure, an exception leaving the coroutine
ProgressContractInputs ==
    { c \in ContractInputs :
        \/ c.is_mapping /\ c.has_text /\ c.analysis \in {"ok", "raises"}
        \/ ~c.is_mapping }

ContractLists == UNION { [1..n -> ContractInputs] : n \in 0..MaxContracts }

MaxConcurrentValues == (-1)..MaxConcurrent

msg_contract_must_have ==
    <<"C", "o", "n", "t", "r", "a", "c", "t", " ", "m", "u", "s", "t", " ", "h", "a",
      "v", "e", " ", "'", "t", "e", "x", "t", "'", " ", "o", "r", " ", "'", "s", "3",
      "_", "b", "u", "c", "k", "e", "t", "'", " ", "a", "n", "d", " ", "'", "s", "3",
      "_", "k", "e", "y", "'">>

msg_no_attribute_get ==
    <<"'", "l", "i", "s", "t", "'", " ", "o", "b", "j", "e", "c", "t", " ", "h", "a",
      "s", " ", "n", "o", " ", "a", "t", "t", "r", "i", "b", "u", "t", "e", " ", "'",
      "g", "e", "t", "'">>

\* the exception the analysis of a contract ends with, when it raises
analysis_exception(contract) ==
    IF contract.analysis = "raises_retryable"
    THEN [type |-> "ThrottlingException", msg |-> msg_rate_exceeded]
    ELSE [type |-> "ValueError", msg |-> msg_permission_denied]

NoOutcome ==
    [raised |-> FALSE, success |-> FALSE, contract_index |-> -1, error |-> <<>>,
     error_type |-> "None", has_execution_time |-> FALSE, contract_type |-> "None"]

\* what awaiting _process_single_contract yields for one task: a result
\* mapping, or (raised) an exception that left the coroutine
process_single_contract(contract, contract_index) ==
    IF ~contract.is_mapping
    THEN \* contract.get('id', ...) before the try block raises AttributeError
         [raised |-> TRUE, success |-> FALSE, contract_index |-> -1,
          error |-> msg_no_attribute_get, error_type |-> "AttributeError",
          has_execution_time |-> FALSE, contract_type |-> "None"]
    ELSE IF ~contract.has_text /\ ~contract.has_s3
    THEN [raised |-> FALSE, success |-> FALSE, contract_index |-> contract_index,
          error |-> msg_contract_must_have, error_type |-> "None",
          has_execution_time |-> TRUE, contract_type |-> "None"]
    ELSE IF contract.analysis = "ok"
    THEN [raised |-> FALSE, success |-> TRUE, contract_index |-> contract_index,
          error |-> <<>>, error_type |-> "None",
          has_execution_time |-> TRUE, contract_type |-> "Unknown"]
    ELSE \* except Exception as e
         [raised |-> FALSE, success |-> FALSE, contract_index |-> contract_index,
          error |-> analysis_exception(contract).msg,
          error_type |-> analysis_exception(contract).type,
          has_execution_time |-> TRUE, contract_type |-> "None"]

\* variant: a retryable failure of the analysis is tried three times
analysis_attempts_with_retry(contract) ==
    IF ~contract.is_mapping \/ (~contract.has_text /\ ~contract.has_s3)
    THEN 0
    ELSE IF contract.analysis = "raises_retryable" THEN 3 ELSE 1

\* how many times _process_single_contract runs the analysis of a contract:
\* once, unless the contract is rejected before the analysis
analysis_attempts(contract) ==
    IF ~contract.is_mapping \/ (~contract.has_text /\ ~contract.has_s3)
    THEN 0
    ELSE 1

\* the task list built by `for idx, contract in enumerate(contracts)`
make_tasks(cs) == [k \in 1..Len(cs) |-> [contract |-> cs[k], contract_index |-> k - 1]]

\* variant: results in order of completion (as with asyncio.as_completed)
gather_in_completion_order(returns, order) ==
    [k \in 1..Len(returns) |-> returns[order[k]]]

\* asyncio.gather(*tasks, return_exceptions=True): the value of the k-th
\* awaitable is the k-th result, whatever the order of completion
gather(returns, order) == [k \in 1..Len(returns) |-> returns[k]]

\* variant: one raised exception fails every result (gather without
\* return_exceptions)
processed_results_abort(rs) ==
    [k \in 1..Len(rs) |->
        IF \E j \in 1..Len(rs) : rs[j].raised
        THEN [raised |-> FALSE, success |-> FALSE, contract_index |-> k - 1,
              error |-> <<>>, error_type |-> "Exception",
              has_execution_time |-> FALSE, contract_type |-> "None"]
        ELSE rs[k]]

\* variant: gather's values are returned as they are
processed_results_unconverted(rs) == rs

\* the loop turning gathered exceptions into failure results
processed_results(rs) ==
    [k \in 1..Len(rs) |->
        IF rs[k].raised
        THEN [raised |-> FALSE, success |-> FALSE, contract_index |-> k - 1,
              error |-> rs[k].error, error_type |-> rs[k].error_type,
              has_execution_time |-> FALSE,
              contract_type |-> "None"]
        ELSE rs[k]]

RECURSIVE count_if(_, _)
\* sum(1 for r in results if r.get('success', False))
count_if(rs, n) ==
    IF n = 0 THEN 0
    ELSE count_if(rs, n - 1) + (IF rs[n].success THEN 1 ELSE 0)

\* variant: every result is counted, a failure under the default key
contract_type_counts_all(rs) ==
    [ct \in { IF rs[k].success THEN rs[k].contract_type ELSE "Unknown" :
                k \in 1..Len(rs) } |->
        Cardinality({ k \in 1..Len(rs) :
                        (IF rs[k].success THEN rs[k].contract_type ELSE "Unknown") = ct })]

\* the contract_types histogram, over the contract types the model produces
contract_type_counts(rs) ==
    [ct \in { rs[k].contract_type : k \in { j \in 1..Len(rs) : rs[j].success } } |->
        Cardinality({ k \in 1..Len(rs) : rs[k].success /\ rs[k].contract_type = ct })]

\* variant: a result counts as failed only when it names an error type
calculate_batch_statistics_failed_by_type(rs) ==
    LET total == Len(rs)
        successful == count_if(rs, Len(rs))
    IN  [total_contracts |-> total,
         successful_count |-> successful,
         failed_count |-> Cardinality({ k \in 1..Len(rs) :
                                          rs[k].error_type # "None" }),
         success_rate |-> IF total > 0
                          THEN [num |-> successful * 100, den |-> total]
                          ELSE [num |-> 0, den |-> 1],
         contract_types |-> contract_type_counts(rs)]

\* success_rate is kept as the exact fraction num/den (0/1 for an empty list)
calculate_batch_statistics(rs) ==
    LET total == Len(rs)
        successful == count_if(rs, Len(rs))
    IN  [total_contracts |-> total,
         successful_count |-> successful,
         failed_count |-> total - successful,
         success_rate |-> IF total > 0
                          THEN [num |-> successful * 100, den |-> total]
                          ELSE [num |-> 0, den |-> 1],
         contract_types |-> contract_type_counts(rs)]

NoStatistics ==
    [total_contracts |-> 0, successful_count |-> 0, failed_count |-> 0,
     success_rate |-> [num |-> 0, den |-> 1], contract_types |-> <<>>]

NoBatchResult ==
    [success |-> FALSE, returned |-> FALSE, error |-> "None", error_type |-> "None",
     has_results |-> FALSE, results |-> <<>>,
     has_statistics |-> FALSE, statistics |-> NoStatistics]

\* variant: the input is not validated
is_empty_batch_unchecked(cs) == FALSE

\* `if not contracts`
is_empty_batch(cs) == Len(cs) = 0

\* variant: the semaphore never blocks
semaphore_free_always(value) == TRUE

\* variant: the last slot is never handed out
semaphore_free_above_one(value) == value > 1

\* asyncio.Semaphore.acquire proceeds without waiting while the value is positive
semaphore_free(value) == value > 0

BatchInit ==
    /\ contracts \in ContractLists
    /\ max_concurrent \in MaxConcurrentValues
    /\ b_pc = "start"
    /\ semaphore = 0
    /\ tasks = <<>>
    /\ t_pc = <<>>
    /\ t_return = <<>>
    /\ t_attempts = <<>>
    /\ completed = <<>>
    /\ batch_result = NoBatchResult

\* process_batch up to the await of asyncio.gather
StartBatch ==
    /\ b_pc = "start"
    /\ IF is_empty_batch(contracts)
       THEN /\ batch_result' = [NoBatchResult EXCEPT !.returned = TRUE,
                                                     !.error = "No contracts provided"]
            /\ b_pc' = "returned"
            /\ UNCHANGED <<semaphore, tasks, t_pc, t_return, t_attempts>>
       ELSE IF max_concurrent < 0
       THEN \* asyncio.Semaphore raises ValueError, caught by `except Exception`
            /\ batch_result' = [NoBatchResult EXCEPT !.returned = TRUE,
                                                     !.error = "Semaphore initial value must be >= 0",
                                                     !.error_type = "ValueError"]
            /\ b_pc' = "returned"
            /\ UNCHANGED <<semaphore, tasks, t_pc, t_return, t_attempts>>
       ELSE /\ semaphore' = max_concurrent
            /\ tasks' = make_tasks(contracts)
            /\ t_pc' = [k \in 1..Len(contracts) |-> "waiting"]
            /\ t_return' = [k \in 1..Len(contracts) |-> NoOutcome]
            /\ t_attempts' = [k \in 1..Len(contracts) |-> 0]
            /\ b_pc' = "gather"
            /\ UNCHANGED batch_result
    /\ UNCHANGED <<contracts, max_concurrent, completed>>
    /\ UNCHANGED <<clsVars, retryVars, wfVars, orchVars, gwVars>>

\* `async with semaphore`: __aenter__ of task i
Acquire(i) ==
    /\ b_pc = "gather"
    /\ t_pc[i] = "waiting"
    /\ semaphore_free(semaphore)
    /\ semaphore' = semaphore - 1
    /\ t_pc' = [t_pc EXCEPT ![i] = "running"]
    /\ UNCHANGED <<contracts, max_concurrent, b_pc, tasks, t_return, t_attempts,
                   completed, batch_result>>
    /\ UNCHANGED <<clsVars, retryVars, wfVars, orchVars, gwVars>>

\* the body of the `async with`: _process_single_contract of task i
Process(i) ==
    /\ b_pc = "gather"
    /\ t_pc[i] = "running"
    /\ t_return' = [t_return EXCEPT
                      ![i] = process_single_contract(tasks[i].contract,
                                                     tasks[i].contract_index)]
    /\ t_attempts' = [t_attempts EXCEPT ![i] = analysis_attempts(tasks[i].contract)]
    /\ t_pc' = [t_pc EXCEPT ![i] = "processed"]
    /\ UNCHANGED <<contracts, max_concurrent, b_pc, semaphore, tasks, completed,
                   batch_result>>
    /\ UNCHANGED <<clsVars, retryVars, wfVars, orchVars, gwVars>>

\* variant: the slot is given back only when the body returned
slot_after_exit_leak_on_raise(value, outcome) ==
    IF outcome.raised THEN value ELSE value + 1

\* Semaphore.__aexit__ calls release() whether the body returned or raised
slot_after_exit(value, outcome) == value + 1

\* __aexit__ of task i, on return and on exception alike; the task is complete
Release(i) ==
    /\ b_pc = "gather"
    /\ t_pc[i] = "processed"
    /\ semaphore' = slot_after_exit(semaphore, t_return[i])
    /\ t_pc' = [t_pc EXCEPT ![i] = "done"]
    /\ completed' = Append(completed, i)
    /\ UNCHANGED <<contracts, max_concurrent, b_pc, tasks, t_return, t_attempts,
                   batch_result>>
    /\ UNCHANGED <<clsVars, retryVars, wfVars, orchVars, gwVars>>

\* variant: the batch succeeds only if some contract did
completed_batch_result_any_success(rs) ==
    [success |-> calculate_batch_statistics(rs).successful_count > 0,
     returned |-> TRUE, error |-> "None", error_type |-> "None",
     has_results |-> TRUE, results |-> rs,
     has_statistics |-> TRUE, statistics |-> calculate_batch_statistics(rs)]

\* the mapping process_batch returns once every task has an outcome
completed_batch_result(rs) ==
    [success |-> TRUE, returned |-> TRUE, error |-> "None", error_type |-> "None",
     has_results |-> TRUE, results |-> rs,
     has_statistics |-> TRUE, statistics |-> calculate_batch_statistics(rs)]

\* process_batch after gather has every task's value
FinishBatch ==
    /\ b_pc = "gather"
    /\ \A k \in 1..Len(tasks) : t_pc[k] = "done"
    /\ batch_result' =
           completed_batch_result(processed_results(gather(t_return, completed)))
    /\ b_pc' = "returned"
    /\ UNCHANGED <<contracts, max_concurrent, semaphore, tasks, t_pc, t_return,
                   t_attempts, completed>>
    /\ UNCHANGED <<clsVars, retryVars, wfVars, orchVars, gwVars>>

\* the caller cancels process_batch while it awaits gather: gather cancels
\* every child that is not complete. CancelledError is thrown into a child
\* where it is suspended, in the acquire of the semaphore or in the analysis
\* (there is no suspension between the return of the analysis and the
\* release); each `async with` releases the slot it holds; CancelledError (a
\* BaseException) passes `except Exception` and leaves process_batch, which
\* returns nothing
CancelBatch ==
    /\ b_pc = "gather"
    /\ \E k \in 1..Len(tasks) : t_pc[k] # "done"
    /\ \A k \in 1..Len(tasks) : t_pc[k] # "processed"
    /\ t_pc' = [k \in 1..Len(tasks) |->
                  CASE t_pc[k] = "waiting" -> "cancelled_waiting"
                    [] t_pc[k] = "running" -> "cancelled_running"
                    [] OTHER -> t_pc[k]]
    /\ semaphore' = semaphore
                     + Cardinality({ k \in 1..Len(tasks) : t_pc[k] = "running" })
    /\ b_pc' = "cancelled"
    /\ UNCHANGED <<contracts, max_concurrent, tasks, t_return, t_attempts,
                   completed, batch_result>>
    /\ UNCHANGED <<clsVars, retryVars, wfVars, orchVars, gwVars>>

\* process_batch when its caller never cancels it
UncancelledBatchNext ==
    \/ StartBatch
    \/ \E i \in 1..Len(tasks) : Acquire(i)
    \/ \E i \in 1..Len(tasks) : Process(i)
    \/ \E i \in 1..Len(tasks) : Release(i)
    \/ FinishBatch

BatchNext ==
    \/ StartBatch
    \/ \E i \in 1..Len(tasks) : Acquire(i)
    \/ \E i \in 1..Len(tasks) : Process(i)
    \/ \E i \in 1..Len(tasks) : Release(i)
    \/ FinishBatch
    \/ CancelBatch

\* ---- OrchestratorAgent.orchestrate_multi_agent_workflow ----
WorkflowTypes ==
    { "analyze_and_extract", "compare_and_extract", "batch_analyze_and_aggregate",
      "summarize_and_file" }

\* what awaiting an agent entrypoint yields: a result mapping with a success
\* flag, or an exception
ReturnedStep(ok) == [kind |-> "returned", success |-> ok]

RaisedStep == [kind |-> "raised", success |-> FALSE]

PendingStep == [kind |-> "pending", success |-> FALSE]

\* analyze_contract catches every Exception itself and always returns a mapping
AnalyzeOutcomes == { ReturnedStep(ok) : ok \in BOOLEAN }

\* the other entrypoints build their agent object outside any try block
StepOutcomes == { ReturnedStep(ok) : ok \in BOOLEAN } \cup {RaisedStep}

NoWorkflowResult ==
    [returned |-> FALSE, success |-> FALSE, error |-> "None", results |-> <<>>,
     agents_involved |-> {}]

\* the mapping returned by the outer `except Exception`
workflow_exception_result ==
    [returned |-> TRUE, success |-> FALSE, error |-> "exception", results |-> <<>>,
     agents_involved |-> {}]

\* the mapping returned for a workflow_type matching no branch
unknown_workflow_result ==
    [returned |-> TRUE, success |-> FALSE, error |-> "Unknown workflow type",
     results |-> <<>>, agents_involved |-> {}]

\* the mapping built after the branches
workflow_result(rs) ==
    [returned |-> TRUE, success |-> TRUE, error |-> "None", results |-> rs,
     agents_involved |-> DOMAIN rs]

\* variant: the second step runs whatever the first returned
dependency_met_always(step_result) == TRUE

\* `if analysis_result.get('success')` / `if comparison_result.get('success')`
dependency_met(step_result) == step_result.success

WorkflowInit ==
    /\ workflow_type \in WorkflowTypes
    /\ user_id \in {"None", "user-1"}
    /\ w_pc = "start"
    /\ results = <<>>
    /\ fanout = <<>>
    /\ invoked = <<>>
    /\ memory_stores = 0
    /\ wf_result = NoWorkflowResult

\* analyze_and_extract, step 1: await analyze_contract(...)
Analyze(o) ==
    /\ w_pc = "start"
    /\ workflow_type = "analyze_and_extract"
    /\ invoked' = Append(invoked, "analyze_contract")
    /\ results' = ("analysis" :> o)
    /\ w_pc' = IF dependency_met(o) THEN "extract" ELSE "finish"
    /\ UNCHANGED <<workflow_type, user_id, fanout, memory_stores, wf_result>>
    /\ UNCHANGED <<clsVars, retryVars, batchVars, orchVars, gwVars>>

\* analyze_and_extract, step 2: await extract_obligations_entrypoint(...)
ExtractObligations(o) ==
    /\ w_pc = "extract"
    /\ invoked' = Append(invoked, "extract_obligations_entrypoint")
    /\ IF o.kind = "raised"
       THEN /\ wf_result' = workflow_exception_result
            /\ w_pc' = "returned"
            /\ UNCHANGED results
       ELSE /\ results' = results @@ ("obligations" :> o)
            /\ w_pc' = "finish"
            /\ UNCHANGED wf_result
    /\ UNCHANGED <<workflow_type, user_id, fanout, memory_stores>>
    /\ UNCHANGED <<clsVars, retryVars, batchVars, orchVars, gwVars>>

\* compare_and_extract, step 1: await compare_contracts_entrypoint(...); when
\* it succeeded the two extraction coroutines are created and gathered
Compare(o) ==
    /\ w_pc = "start"
    /\ workflow_type = "compare_and_extract"
    /\ IF o.kind = "raised"
       THEN /\ invoked' = Append(invoked, "compare_contracts_entrypoint")
            /\ wf_result' = workflow_exception_result
            /\ w_pc' = "returned"
            /\ UNCHANGED <<results, fanout>>
       ELSE /\ results' = ("comparison" :> o)
            /\ UNCHANGED wf_result
            /\ IF dependency_met(o)
               THEN /\ invoked' = invoked \o <<"compare_contracts_entrypoint",
                                              "extract_obligations_entrypoint",
                                              "extract_obligations_entrypoint">>
                    /\ fanout' = ("obligations_a" :> PendingStep) @@
                                 ("obligations_b" :> PendingStep)
                    /\ w_pc' = "gather"
               ELSE /\ invoked' = Append(invoked, "compare_contracts_entrypoint")
                    /\ w_pc' = "finish"
                    /\ UNCHANGED fanout
    /\ UNCHANGED <<workflow_type, user_id, memory_stores>>
    /\ UNCHANGED <<clsVars, retryVars, batchVars, orchVars, gwVars>>

\* one of the two gathered extractions reaches its end, by return or exception
ExtractSide(side, o) ==
    /\ w_pc = "gather"
    /\ side \in DOMAIN fanout
    /\ fanout[side].kind = "pending"
    /\ fanout' = [fanout EXCEPT ![side] = o]
    /\ UNCHANGED <<workflow_type, user_id, w_pc, results, invoked, memory_stores,
                   wf_result>>
    /\ UNCHANGED <<clsVars, retryVars, batchVars, orchVars, gwVars>>

\* variant: the join returns as soon as one extraction has ended
gather_done_first(f) == \E side \in DOMAIN f : f[side].kind # "pending"

\* asyncio.gather returns once every awaitable has ended, by value or exception
gather_done(f) == \A side \in DOMAIN f : f[side].kind # "pending"

\* asyncio.gather(..., return_exceptions=True) returns; both values are stored
JoinExtractions ==
    /\ w_pc = "gather"
    /\ gather_done(fanout)
    /\ results' = results @@ fanout
    /\ w_pc' = "finish"
    /\ UNCHANGED <<workflow_type, user_id, fanout, invoked, memory_stores, wf_result>>
    /\ UNCHANGED <<clsVars, retryVars, batchVars, orchVars, gwVars>>

\* batch_analyze_and_aggregate: await process_batch_entrypoint(...), then
\* _aggregate_batch_statistics when the batch reported success
BatchStep(o) ==
    /\ w_pc = "start"
    /\ workflow_type = "batch_analyze_and_aggregate"
    /\ invoked' = Append(invoked, "process_batch_entrypoint")
    /\ IF o.kind = "raised"
       THEN /\ wf_result' = workflow_exception_result
            /\ w_pc' = "returned"
            /\ UNCHANGED results
       ELSE /\ results' = IF o.success
                          THEN ("batch" :> o) @@ ("aggregated_stats" :> ReturnedStep(TRUE))
                          ELSE ("batch" :> o)
            /\ w_pc' = "finish"
            /\ UNCHANGED wf_result
    /\ UNCHANGED <<workflow_type, user_id, fanout, memory_stores>>
    /\ UNCHANGED <<clsVars, retryVars, batchVars, orchVars, gwVars>>

\* the final else branch
UnknownWorkflow ==
    /\ w_pc = "start"
    /\ workflow_type \notin { "analyze_and_extract", "compare_and_extract",
                              "batch_analyze_and_aggregate" }
    /\ wf_result' = unknown_workflow_result
    /\ w_pc' = "returned"
    /\ UNCHANGED <<workflow_type, user_id, results, fanout, invoked, memory_stores>>
    /\ UNCHANGED <<clsVars, retryVars, batchVars, orchVars, gwVars>>

\* the result is built, stored in memory when there is a user (a failing
\* store is logged and swallowed) and returned
FinishWorkflow(stored) ==
    /\ w_pc = "finish"
    /\ wf_result' = workflow_result(results)
    /\ memory_stores' = IF user_id # "None" /\ stored
                        THEN memory_stores + 1 ELSE memory_stores
    /\ w_pc' = "returned"
    /\ UNCHANGED <<workflow_type, user_id, results, fanout, invoked>>
    /\ UNCHANGED <<clsVars, retryVars, batchVars, orchVars, gwVars>>

WorkflowNext ==
    \/ \E o \in AnalyzeOutcomes : Analyze(o)
    \/ \E o \in StepOutcomes : ExtractObligations(o)
    \/ \E o \in StepOutcomes : Compare(o)
    \/ \E side \in {"obligations_a", "obligations_b"}, o \in StepOutcomes :
          ExtractSide(side, o)
    \/ JoinExtractions
    \/ \E o \in StepOutcomes : BatchStep(o)
    \/ UnknownWorkflow
    \/ \E stored \in BOOLEAN : FinishWorkflow(stored)

\* ---- OrchestratorAgent.orchestrate ----
RequestTypes == { "analyze", "compare", "extract_obligations", "batch", "summarize" }

\* variant: a route for every request type
agent_routes_open == RequestTypes

\* the keys of self.agent_routes
agent_routes == { "analyze", "compare", "extract_obligations", "batch" }

NoOrchestrationResult ==
    [returned |-> FALSE, success |-> FALSE, error |-> "None", has_agent_result |-> FALSE,
     agent_result |-> PendingStep, routed_to |-> "None"]

\* the mapping returned for a request_type that has no route
unknown_request_result ==
    [returned |-> TRUE, success |-> FALSE, error |-> "Unknown request type",
     has_agent_result |-> FALSE, agent_result |-> PendingStep, routed_to |-> "None"]

\* the mapping returned by the outer `except Exception`
orchestration_exception_result ==
    [returned |-> TRUE, success |-> FALSE, error |-> "exception",
     has_agent_result |-> FALSE, agent_result |-> PendingStep, routed_to |-> "None"]

\* variant: the success flag repeats the agent's
orchestrated_result_mirroring(rt, ar) ==
    [returned |-> TRUE, success |-> ar.success, error |-> "None",
     has_agent_result |-> TRUE, agent_result |-> ar, routed_to |-> rt]

\* the mapping built once the routed agent function has returned
orchestrated_result(rt, ar) ==
    [returned |-> TRUE, success |-> TRUE, error |-> "None",
     has_agent_result |-> TRUE, agent_result |-> ar, routed_to |-> rt]

OrchestrateInit ==
    /\ request_type \in RequestTypes
    /\ o_user_id \in {"None", "user-1"}
    /\ o_pc = "start"
    /\ agent_result = PendingStep
    /\ o_invoked = <<>>
    /\ o_memory_stores = 0
    /\ orch_result = NoOrchestrationResult

\* `if request_type not in self.agent_routes`
UnknownRequest ==
    /\ o_pc = "start"
    /\ request_type \notin agent_routes
    /\ orch_result' = unknown_request_result
    /\ o_pc' = "returned"
    /\ UNCHANGED <<request_type, o_user_id, agent_result, o_invoked, o_memory_stores>>
    /\ UNCHANGED <<clsVars, retryVars, batchVars, wfVars, gwVars>>

\* agent_result = await agent_function(**request_data)
Route(o) ==
    /\ o_pc = "start"
    /\ request_type \in agent_routes
    /\ o_invoked' = Append(o_invoked, request_type)
    /\ IF o.kind = "raised"
       THEN /\ orch_result' = orchestration_exception_result
            /\ o_pc' = "returned"
            /\ UNCHANGED agent_result
       ELSE /\ agent_result' = o
            /\ o_pc' = "finish"
            /\ UNCHANGED orch_result
    /\ UNCHANGED <<request_type, o_user_id, o_memory_stores>>
    /\ UNCHANGED <<clsVars, retryVars, batchVars, wfVars, gwVars>>

\* the result is built, stored in memory when there is a user (a failing
\* store is logged and swallowed) and returned
FinishOrchestrate(stored) ==
    /\ o_pc = "finish"
    /\ orch_result' = orchestrated_result(request_type, agent_result)
    /\ o_memory_stores' = IF o_user_id # "None" /\ stored
                          THEN o_memory_stores + 1 ELSE o_memory_stores
    /\ o_pc' = "returned"
    /\ UNCHANGED <<request_type, o_user_id, agent_result, o_invoked>>
    /\ UNCHANGED <<clsVars, retryVars, batchVars, wfVars, gwVars>>

\* one workflow call and one orchestrate call on the same agent
OrchestratorNext ==
    \/ \E o \in AnalyzeOutcomes : Analyze(o)
    \/ \E o \in StepOutcomes : ExtractObligations(o)
    \/ \E o \in StepOutcomes : Compare(o)
    \/ \E side \in {"obligations_a", "obligations_b"}, o \in StepOutcomes :
          ExtractSide(side, o)
    \/ JoinExtractions
    \/ \E o \in StepOutcomes : BatchStep(o)
    \/ UnknownWorkflow
    \/ \E stored \in BOOLEAN : FinishWorkflow(stored)
    \/ UnknownRequest
    \/ \E o \in StepOutcomes : Route(o)
    \/ \E stored \in BOOLEAN : FinishOrchestrate(stored)

\* ---- classifier applied to one error ----
ClassifyInit ==
    /\ cls_error \in Errors
    /\ cls_result = "pending"

Classify ==
    /\ cls_result = "pending"
    /\ cls_result' = Classification(cls_error)
    /\ UNCHANGED cls_error
    /\ UNCHANGED <<retryVars, batchVars, wfVars, orchVars, gwVars>>

\* ---- BatchProcessingAgent._analyze_with_gateway_tools ----
\* the four tools, in the order in which their awaitables are gathered
ToolNames ==
    <<"identify_contract_type", "extract_contract_parties", "extract_pricing_terms",
      "assess_contract_risks">>

\* the key read from each tool's mapping and the default used in its place
ToolKeys == <<"contract_type", "parties", "pricing_terms", "risks">>
ToolDefaults == <<"Unknown", "[]", "{}", "[]">>

\* how an invocation ends: it returns a mapping, with or without the key that
\* is read from it, or it raises an Exception
ToolOutcomes ==
    { [kind |-> "returned", has_key |-> TRUE],
      [kind |-> "returned", has_key |-> FALSE],
      [kind |-> "raised", has_key |-> FALSE] }

ToolPending == [kind |-> "pending", has_key |-> FALSE]

\* results[i].get(key, default) if results[i] is not an Exception, else default
tool_value(rs, i) ==
    IF rs[i].kind # "raised" /\ rs[i].has_key
    THEN <<"tool", ToolKeys[i]>>
    ELSE <<"default", ToolDefaults[i]>>

\* variant: the analysis succeeds only when no tool raised
analyze_with_gateway_tools_strict(rs) ==
    [success |-> \A i \in 1..Len(rs) : rs[i].kind # "raised",
     contract_type |-> tool_value(rs, 1),
     parties |-> tool_value(rs, 2),
     pricing |-> tool_value(rs, 3),
     risks |-> tool_value(rs, 4)]

\* the mapping built from the gathered values
analyze_with_gateway_tools(rs) ==
    [success |-> TRUE,
     contract_type |-> tool_value(rs, 1),
     parties |-> tool_value(rs, 2),
     pricing |-> tool_value(rs, 3),
     risks |-> tool_value(rs, 4)]

NoGatewayAnalysis ==
    [success |-> FALSE, contract_type |-> <<"none", "none">>,
     parties |-> <<"none", "none">>, pricing |-> <<"none", "none">>,
     risks |-> <<"none", "none">>]

\* _process_single_contract adds contract_id, contract_index and
\* execution_time to the analysis and returns it as the task's result
with_batch_metadata(analysis, contract_index) ==
    [raised |-> FALSE, success |-> analysis.success, contract_index |-> contract_index,
     error |-> <<>>, error_type |-> "None", has_execution_time |-> TRUE,
     contract_type |-> analysis.contract_type[2]]

GatewayInit ==
    /\ tool_outcomes \in [1..Len(ToolNames) -> ToolOutcomes]
    /\ g_pc = "start"
    /\ tool_results = [i \in 1..Len(ToolNames) |-> ToolPending]
    /\ gw_result = NoGatewayAnalysis
    /\ gw_statistics = NoStatistics

\* the four invoke_tool awaitables are collected and handed to gather
InvokeTools ==
    /\ g_pc = "start"
    /\ g_pc' = "gather"
    /\ UNCHANGED <<tool_outcomes, tool_results, gw_result, gw_statistics>>
    /\ UNCHANGED <<clsVars, retryVars, batchVars, wfVars, orchVars>>

\* one invocation ends, in any order; gather keeps its value or its exception
\* at the invocation's position
ToolEnds(i) ==
    /\ g_pc = "gather"
    /\ tool_results[i] = ToolPending
    /\ tool_results' = [tool_results EXCEPT ![i] = tool_outcomes[i]]
    /\ UNCHANGED <<tool_outcomes, g_pc, gw_result, gw_statistics>>
    /\ UNCHANGED <<clsVars, retryVars, batchVars, wfVars, orchVars>>

\* gather has the four values: they are parsed into the analysis
ParseToolResults ==
    /\ g_pc = "gather"
    /\ \A i \in 1..Len(ToolNames) : tool_results[i] # ToolPending
    /\ gw_result' = analyze_with_gateway_tools(tool_results)
    /\ g_pc' = "parsed"
    /\ UNCHANGED <<tool_outcomes, tool_results, gw_statistics>>
    /\ UNCHANGED <<clsVars, retryVars, batchVars, wfVars, orchVars>>

\* the task's result is counted by _calculate_batch_statistics
CountGatewayResult ==
    /\ g_pc = "parsed"
    /\ gw_statistics' = calculate_batch_statistics(<<with_batch_metadata(gw_result, 0)>>)
    /\ g_pc' = "counted"
    /\ UNCHANGED <<tool_outcomes, tool_results, gw_result>>
    /\ UNCHANGED <<clsVars, retryVars, batchVars, wfVars, orchVars>>

GatewayNext ==
    \/ InvokeTools
    \/ \E i \in 1..Len(ToolNames) : ToolEnds(i)
    \/ ParseToolResults
    \/ CountGatewayResult

\* ---- idle values of the parts a specification does not exercise ----
ClassifyIdle == cls_error = NoError /\ cls_result = "pending"

RetryIdle ==
    /\ max_retries = 0 /\ retry_delay_seconds = 1 /\ request_ok = TRUE
    /\ r_pc = "idle" /\ attempt = 0 /\ last_error = NoError
    /\ attempt_log = <<>> /\ sleeps = <<>> /\ response = NoResponse /\ live = 0

GatewayIdle ==
    /\ tool_outcomes = <<>> /\ g_pc = "idle" /\ tool_results = <<>>
    /\ gw_result = NoGatewayAnalysis /\ gw_statistics = NoStatistics

BatchIdle ==
    /\ contracts = <<>> /\ max_concurrent = 0 /\ b_pc = "idle" /\ semaphore = 0
    /\ tasks = <<>> /\ t_pc = <<>> /\ t_return = <<>> /\ t_attempts = <<>>
    /\ completed = <<>> /\ batch_result = NoBatchResult

WorkflowIdle ==
    /\ workflow_type = "analyze_and_extract" /\ user_id = "None" /\ w_pc = "idle"
    /\ results = <<>> /\ fanout = <<>> /\ invoked = <<>> /\ memory_stores = 0
    /\ wf_result = NoWorkflowResult

OrchestrateIdle ==
    /\ request_type = "analyze" /\ o_user_id = "None" /\ o_pc = "idle"
    /\ agent_result = PendingStep /\ o_invoked = <<>> /\ o_memory_stores = 0
    /\ orch_result = NoOrchestrationResult

\* ---- specifications ----
SpecClassifyInit ==
    ClassifyInit /\ RetryIdle /\ BatchIdle /\ WorkflowIdle /\ OrchestrateIdle
      /\ GatewayIdle
ClassifyNext == Classify
SpecClassify == SpecClassifyInit /\ [][ClassifyNext]_vars

SpecRetryInit ==
    ClassifyIdle /\ RetryInit /\ BatchIdle /\ WorkflowIdle /\ OrchestrateIdle
      /\ GatewayIdle
SpecRetry == SpecRetryInit /\ [][RetryNext]_vars

SpecBatchInit ==
    ClassifyIdle /\ RetryIdle /\ BatchInit /\ WorkflowIdle /\ OrchestrateIdle
      /\ GatewayIdle
SpecBatch == SpecBatchInit /\ [][BatchNext]_vars

\* process_batch left to run by its caller: the event loop runs every task
\* that can run, a waiter of the semaphore is woken when a slot is free, and
\* every analysis ends
SpecBatchFairInit ==
    /\ SpecBatchInit
    /\ \A k \in 1..Len(contracts) : contracts[k] \in ProgressContractInputs
SpecBatchFair ==
    /\ SpecBatchFairInit
    /\ [][UncancelledBatchNext]_vars
    /\ WF_vars(StartBatch)
    /\ WF_vars(\E i \in 1..Len(tasks) : Acquire(i))
    /\ WF_vars(\E i \in 1..Len(tasks) : Process(i))
    /\ WF_vars(\E i \in 1..Len(tasks) : Release(i))
    /\ WF_vars(FinishBatch)

SpecGatewayInit ==
    /\ ClassifyIdle /\ RetryIdle /\ BatchIdle /\ WorkflowIdle /\ OrchestrateIdle
    /\ GatewayInit
SpecGateway == SpecGatewayInit /\ [][GatewayNext]_vars

SpecWorkflowInit ==
    ClassifyIdle /\ RetryIdle /\ BatchIdle /\ WorkflowInit /\ OrchestrateIdle
      /\ GatewayIdle
SpecWorkflow == SpecWorkflowInit /\ [][WorkflowNext]_vars

SpecOrchestratorInit ==
    ClassifyIdle /\ RetryIdle /\ BatchIdle /\ WorkflowInit /\ OrchestrateInit
      /\ GatewayIdle
SpecOrchestrator == SpecOrchestratorInit /\ [][OrchestratorNext]_vars

\* ======================= properties =======================

\* ---- helpers of the properties ----
InSection(k) == t_pc[k] \in {"running", "processed"}

\* the contract cannot be analysed successfully
ContractFails(c) ==
    \/ ~c.is_mapping
    \/ ~c.has_text /\ ~c.has_s3
    \/ c.analysis # "ok"

FailingIndices == { k \in 1..Len(contracts) : ContractFails(contracts[k]) }

BatchReturnedNormally ==
    b_pc = "returned" /\ Len(contracts) > 0 /\ max_concurrent >= 1

\* the token set of the classifier's policy
PolicyTokens ==
    { <<"t", "h", "r", "o", "t", "t", "l", "i", "n", "g">>,
      <<"r", "a", "t", "e", " ", "l", "i", "m", "i", "t">>,
      <<"s", "e", "r", "v", "i", "c", "e", " ", "u", "n", "a", "v", "a", "i", "l", "a", "b", "l", "e">>,
      <<"u", "n", "a", "v", "a", "i", "l", "a", "b", "l", "e">>,
      <<"t", "i", "m", "e", "o", "u", "t">>,
      <<"c", "o", "n", "n", "e", "c", "t", "i", "o", "n">>,
      <<"n", "e", "t", "w", "o", "r", "k">>,
      <<"t", "e", "m", "p", "o", "r", "a", "r">>,
      <<"t", "r", "a", "n", "s", "i", "e", "n", "t">> }

HasPolicyToken(m) == \E tok \in PolicyTokens : contains(lower(m), tok)

\* the attempt ended in an error the loop treats as retryable
RetryableFailure(o) ==
    \/ o.kind = "timeout"
    \/ o.kind \in {"raise", "unconvertible"} /\ is_retryable_error(o.error)

\* the attempt ended in an error the classifier deems fatal
FatalFailure(o) ==
    o.kind \in {"raise", "unconvertible"} /\ ~is_retryable_error(o.error)

\* C1: a non-empty batch returns one result per contract, in input order:
\* len(results) == len(contracts) and results[i].contract_index == i,
\* whatever the order in which the tasks completed.
C1_IndexAlignment ==
    BatchReturnedNormally =>
        /\ batch_result.success
        /\ batch_result.has_results
        /\ Len(batch_result.results) = Len(contracts)
        /\ \A k \in 1..Len(contracts) :
              /\ ~batch_result.results[k].raised
              /\ batch_result.results[k].contract_index = k - 1

\* C1 witness: three tasks completed in reverse order and the batch returned
C1_Witness ==
    /\ BatchReturnedNormally
    /\ Len(contracts) = 3
    /\ completed = <<3, 2, 1>>
    /\ batch_result.has_results
    /\ \E k \in 1..3 : batch_result.results[k].success

\* C2: batch isolation: results[i] is a failure exactly for the contracts
\* that cannot be processed and a success for every other one, and the
\* statistics count them so (success_rate = (n - |F|) / n * 100).
C2_BatchIsolation ==
    BatchReturnedNormally =>
        /\ Len(batch_result.results) = Len(contracts)
        /\ \A k \in 1..Len(contracts) :
              batch_result.results[k].success <=> k \notin FailingIndices
        /\ batch_result.statistics.successful_count =
              Len(contracts) - Cardinality(FailingIndices)
        /\ batch_result.statistics.failed_count = Cardinality(FailingIndices)
        /\ batch_result.statistics.success_rate.num =
              (Len(contracts) - Cardinality(FailingIndices)) * 100
        /\ batch_result.statistics.success_rate.den = Len(contracts)

\* C2 witness: a task whose exception left its coroutine and a task whose
\* analysis raised both completed before a task that then succeeded
C2_Witness ==
    /\ BatchReturnedNormally
    /\ Len(contracts) = 3
    /\ FailingIndices = {1, 2}
    /\ ~contracts[1].is_mapping
    /\ contracts[2].analysis = "raises"
    /\ completed = <<1, 2, 3>>
    /\ batch_result.results[3].success
    /\ batch_result.statistics.successful_count = 1

\* C3: with max_concurrent = N >= 1, at most N tasks are inside the
\* semaphore-guarded section at any time.
C3_ConcurrencyCeiling ==
    (b_pc = "gather" /\ max_concurrent >= 1) =>
        Cardinality({ k \in 1..Len(tasks) : InSection(k) }) <= max_concurrent

\* C3 witness: N = 2 tasks are in the section while a third waits for a slot
C3_Witness ==
    /\ b_pc = "gather"
    /\ max_concurrent = 2
    /\ Cardinality({ k \in 1..Len(tasks) : InSection(k) }) = 2
    /\ \E k \in 1..Len(tasks) : t_pc[k] = "waiting"

C5_FatalShortCircuit ==
    \A k \in 1..Len(attempt_log) :
        FatalFailure(attempt_log[k]) =>
            /\ k = Len(attempt_log)
            /\ Len(sleeps) = k - 1
            /\ r_pc \in {"break", "done"}
            /\ r_pc = "done" => ~response.success

\* C5 witness: max_retries = 3, the first attempt is fatal, the call is over
C5_Witness ==
    /\ r_pc = "done"
    /\ max_retries = 3
    /\ Len(attempt_log) = 1
    /\ FatalFailure(attempt_log[1])
    /\ sleeps = <<>>
    /\ response.source = "retries_exhausted"

\* step A of the two sequential workflows returned a failure
StepAFailed ==
    \/ /\ workflow_type = "analyze_and_extract"
       /\ "analysis" \in DOMAIN results
       /\ ~results["analysis"].success
    \/ /\ workflow_type = "compare_and_extract"
       /\ "comparison" \in DOMAIN results
       /\ ~results["comparison"].success

StepBNames ==
    IF workflow_type = "analyze_and_extract"
    THEN {"obligations"}
    ELSE {"obligations_a", "obligations_b"}

StepBNeverInvoked ==
    \A k \in 1..Len(invoked) : invoked[k] # "extract_obligations_entrypoint"

C7_EmptyBatch ==
    Len(contracts) = 0 =>
        /\ tasks = <<>> /\ t_pc = <<>> /\ completed = <<>> /\ semaphore = 0
        /\ b_pc \in {"start", "returned"}
        /\ b_pc = "returned" =>
              /\ ~batch_result.success
              /\ batch_result.error = "No contracts provided"
              /\ ~batch_result.has_results
              /\ batch_result.results = <<>>
              /\ ~batch_result.has_statistics

\* C7 witness: process_batch returned for an empty list
C7_Witness ==
    /\ b_pc = "returned"
    /\ contracts = <<>>
    /\ batch_result.returned
    /\ ~batch_result.success

\* C8: an error whose lower-cased message contains a token of the policy
\* is classified Retryable, whatever its type.
C8_TokenMeansRetryable ==
    (cls_result # "pending" /\ HasPolicyToken(cls_error.msg)) =>
        cls_result = "Retryable"

\* C8 witness: a ValidationError whose message has the token only in upper
\* case was classified Retryable
C8_Witness ==
    /\ cls_result = "Retryable"
    /\ cls_error.type = "ValidationError"
    /\ HasPolicyToken(cls_error.msg)
    /\ \A tok \in PolicyTokens : ~contains(cls_error.msg, tok)

\* C9 as stated: an error whose type is none of TimeoutError, ConnectionError,
\* ServiceUnavailableException and whose message has no token is Fatal.
C9_Original ==
    (/\ cls_result # "pending"
     /\ cls_error.type \notin {"TimeoutError", "ConnectionError",
                               "ServiceUnavailableException"}
     /\ ~HasPolicyToken(cls_error.msg))
    => cls_result = "Fatal"

\* C9 amended: an error whose type name is none of TimeoutError,
\* ConnectionError, ThrottlingException, ServiceUnavailableException and whose
\* lower-cased message has no token is classified Fatal.
C9_NoTokenNoTypeMeansFatal ==
    (/\ cls_result # "pending"
     /\ cls_error.type \notin {"TimeoutError", "ConnectionError",
                               "ThrottlingException", "ServiceUnavailableException"}
     /\ ~HasPolicyToken(cls_error.msg))
    => cls_result = "Fatal"

\* C9 witness: a ValueError saying 'permission denied' was classified Fatal
C9_Witness ==
    /\ cls_result = "Fatal"
    /\ cls_error.type = "ValueError"
    /\ cls_error.msg = msg_permission_denied

IsValidationError(o) == o.kind = "raise" /\ o.error.type = "ValidationError"

\* C10 as stated: an attempt that fails with a ValidationError, whatever its
\* message, is followed by no further attempt.
C10_Original ==
    \A k \in 1..Len(attempt_log) :
        IsValidationError(attempt_log[k]) => k = Len(attempt_log)

\* C10 amended: an attempt that fails with a ValidationError whose lower-cased
\* message contains none of the retryable tokens is followed by no further
\* attempt and no backoff sleep.
C10_ValidationErrorFatal ==
    \A k \in 1..Len(attempt_log) :
        (IsValidationError(attempt_log[k]) /\ ~HasPolicyToken(attempt_log[k].error.msg))
        => /\ k = Len(attempt_log)
           /\ Len(sleeps) = k - 1

\* C10 witness: the first of three allowed attempts raised a ValidationError
\* saying 'permission denied' and the call ended after it
C10_Witness ==
    /\ r_pc = "done"
    /\ max_retries = 3
    /\ Len(attempt_log) = 1
    /\ IsValidationError(attempt_log[1])
    /\ attempt_log[1].error.msg = msg_permission_denied
    /\ ~response.success

\* C11 as stated: a failed request conversion returns a failure before any
\* attempt, and an attempt whose response conversion raised is followed by no
\* further attempt.
C11_Original ==
    /\ (r_pc = "done" /\ ~request_ok) => (attempt_log = <<>> /\ ~response.success)
    /\ \A k \in 1..Len(attempt_log) :
          attempt_log[k].kind = "unconvertible" => k = Len(attempt_log)

\* C11 amended: a failed request conversion returns a failure before any
\* attempt; an attempt whose response conversion raised is followed by no
\* further attempt and no sleep when the ResponseConversionError's message
\* (which embeds the text of the underlying error) has none of the tokens.
C11_ConversionErrorFatal ==
    /\ ~request_ok => attempt_log = <<>>
    /\ (r_pc = "done" /\ ~request_ok) =>
          (~response.success /\ response.source = "request_conversion")
    /\ \A k \in 1..Len(attempt_log) :
          (/\ attempt_log[k].kind = "unconvertible"
           /\ ~HasPolicyToken(attempt_log[k].error.msg))
          => /\ k = Len(attempt_log)
             /\ Len(sleeps) = k - 1
             /\ r_pc = "done" => response.error_type = "ResponseConversionError"

\* C11 witness: after a timeout, the second of three allowed attempts returned
\* a response whose conversion raised, and the call ended there
C11_Witness ==
    /\ r_pc = "done"
    /\ max_retries = 3
    /\ Len(attempt_log) = 2
    /\ attempt_log[1].kind = "timeout"
    /\ attempt_log[2].kind = "unconvertible"
    /\ ~HasPolicyToken(attempt_log[2].error.msg)
    /\ response.error_type = "ResponseConversionError"

KnownWorkflowTypes ==
    { "analyze_and_extract", "compare_and_extract", "batch_analyze_and_aggregate" }

KnownRequestTypes == { "analyze", "compare", "extract_obligations", "batch" }

\* C12: a workflow_type outside the three known ones, and a request_type
\* outside the routing map, return success=false without any agent step or
\* agent function having been invoked.
C12_UnknownNamesFailFast ==
    /\ workflow_type \notin KnownWorkflowTypes =>
          /\ invoked = <<>> /\ results = <<>> /\ w_pc \in {"start", "returned"}
          /\ w_pc = "returned" =>
                (~wf_result.success /\ wf_result.error = "Unknown workflow type")
    /\ request_type \notin KnownRequestTypes =>
          /\ o_invoked = <<>> /\ o_pc \in {"start", "returned"}
          /\ o_pc = "returned" =>
                /\ ~orch_result.success
                /\ orch_result.error = "Unknown request type"
                /\ ~orch_result.has_agent_result

\* C12 witness: both calls returned for names that are not known
C12_Witness ==
    /\ workflow_type = "summarize_and_file" /\ w_pc = "returned"
    /\ request_type = "summarize" /\ o_pc = "returned"
    /\ ~wf_result.success /\ ~orch_result.success

ComparisonSucceeded ==
    /\ workflow_type = "compare_and_extract"
    /\ "comparison" \in DOMAIN results
    /\ results["comparison"].success

\* C13: in compare_and_extract, after a successful comparison both
\* extractions are started and joined; the workflow goes on only when both
\* have ended, and then reports success with an entry for each of them, also
\* when one or both returned a failure or raised.
C13_FanOutAggregates ==
    ComparisonSucceeded =>
        /\ DOMAIN fanout = {"obligations_a", "obligations_b"}
        /\ Cardinality({ k \in 1..Len(invoked) :
                            invoked[k] = "extract_obligations_entrypoint" }) = 2
        /\ w_pc \in {"gather", "finish", "returned"}
        /\ w_pc \in {"finish", "returned"} =>
              /\ \A side \in DOMAIN fanout : fanout[side].kind # "pending"
              /\ \A side \in DOMAIN fanout :
                    side \in DOMAIN results /\ results[side] = fanout[side]
        /\ w_pc = "returned" =>
              /\ wf_result.success
              /\ DOMAIN wf_result.results =
                    {"comparison", "obligations_a", "obligations_b"}
              /\ \A side \in DOMAIN fanout : wf_result.results[side] = fanout[side]

\* C13 witness: the workflow returned success although one extraction raised
\* and the other returned a failure
C13_Witness ==
    /\ ComparisonSucceeded
    /\ w_pc = "returned"
    /\ wf_result.success
    /\ wf_result.results["obligations_a"] = RaisedStep
    /\ wf_result.results["obligations_b"] = ReturnedStep(FALSE)

\* the exception that ends the processing of a contract, for the contracts
\* whose processing raises
RaisingIndices ==
    { k \in 1..Len(contracts) :
        \/ ~contracts[k].is_mapping
        \/ /\ contracts[k].has_text \/ contracts[k].has_s3
           /\ contracts[k].analysis # "ok" }

RaisedException(c) ==
    IF ~c.is_mapping
    THEN [type |-> "AttributeError", msg |-> msg_no_attribute_get]
    ELSE analysis_exception(c)

\* C14: an exception raised while a task is processed, inside the try block
\* or before it, never leaves process_batch: the batch returns success and
\* results[k] is a failure mapping with the exception's string and type name;
\* process_batch reports a failure only for an empty list or a semaphore that
\* cannot be built.
C14_TaskFailuresContained ==
    /\ BatchReturnedNormally =>
          /\ batch_result.returned /\ batch_result.success
          /\ \A k \in RaisingIndices :
                /\ ~batch_result.results[k].raised
                /\ ~batch_result.results[k].success
                /\ batch_result.results[k].contract_index = k - 1
                /\ batch_result.results[k].error = RaisedException(contracts[k]).msg
                /\ batch_result.results[k].error_type =
                      RaisedException(contracts[k]).type
    /\ (b_pc = "returned" /\ ~batch_result.success) =>
          Len(contracts) = 0 \/ max_concurrent < 0

\* C14 witness: the batch returned success with the AttributeError that left
\* the first task's coroutine and the ThrottlingException caught in the second
C14_Witness ==
    /\ BatchReturnedNormally
    /\ Len(contracts) = 2
    /\ RaisingIndices = {1, 2}
    /\ batch_result.success
    /\ batch_result.results[1].error_type = "AttributeError"
    /\ batch_result.results[1].error = msg_no_attribute_get
    /\ batch_result.results[2].error_type = "ThrottlingException"
    /\ batch_result.results[2].error = msg_rate_exceeded

\* C15: a non-empty batch whose tasks all ended returns success = true with a
\* statistics block counting the failed tasks, also when every task failed;
\* an empty batch returns success = false with the reason and neither results
\* nor statistics.
C15_BatchLevelStatus ==
    b_pc = "returned" =>
        /\ (Len(contracts) > 0 /\ max_concurrent >= 1) =>
              /\ batch_result.success
              /\ batch_result.has_statistics
              /\ batch_result.statistics.total_contracts = Len(contracts)
              /\ batch_result.statistics.failed_count = Cardinality(FailingIndices)
        /\ Len(contracts) = 0 =>
              /\ ~batch_result.success
              /\ batch_result.error = "No contracts provided"
              /\ ~batch_result.has_statistics
              /\ batch_result.statistics = NoStatistics

\* C15 witness: all three contracts failed and the batch reports success
C15_Witness ==
    /\ b_pc = "returned"
    /\ Len(contracts) = 3
    /\ max_concurrent >= 1
    /\ FailingIndices = {1, 2, 3}
    /\ batch_result.success
    /\ batch_result.has_statistics
    /\ batch_result.statistics.successful_count = 0
    /\ batch_result.statistics.failed_count = 3

\* C16 as stated: process_batch called with max_concurrent = 0 on a non-empty
\* list returns at once with a failure and starts no task.
C16_Original ==
    (max_concurrent = 0 /\ Len(contracts) > 0 /\ b_pc # "start") =>
        /\ b_pc = "returned"
        /\ batch_result.returned
        /\ ~batch_result.success
        /\ tasks = <<>>

\* C17 as stated: when process_batch is cancelled while tasks still wait for
\* a slot, the batch result has, for each of them, an outcome of the kind
\* Cancelled.
C17_Original ==
    (b_pc = "cancelled" /\ \E k \in 1..Len(tasks) : t_pc[k] = "cancelled_waiting") =>
        /\ batch_result.returned
        /\ batch_result.has_results
        /\ Len(batch_result.results) = Len(contracts)
        /\ \A k \in 1..Len(tasks) :
              t_pc[k] = "cancelled_waiting" =>
                  /\ ~batch_result.results[k].success
                  /\ batch_result.results[k].error_type = "Cancelled"

\* the tasks whose analysis was run and ended with an exception that
\* is_retryable_error classifies as retryable
RetryableTaskFailures ==
    { k \in 1..Len(tasks) :
        /\ t_pc[k] \in {"processed", "done"}
        /\ tasks[k].contract.is_mapping
        /\ tasks[k].contract.has_text \/ tasks[k].contract.has_s3
        /\ tasks[k].contract.analysis # "ok"
        /\ is_retryable_error(analysis_exception(tasks[k].contract)) }

FailuresWithAttemptsLeft ==
    { k \in 1..Len(attempt_log) :
        RetryableFailure(attempt_log[k]) /\ k < max_retries }

\* C19: the k-th backoff sleep (attempt k - 1, counted from 0) lasts
\* retry_delay_seconds * 2^(k-1); there is one sleep for each retryable
\* failure that leaves attempts, and none after the last allowed attempt,
\* after a fatal failure or after a returned response.
C19_BackoffSchedule ==
    /\ \A k \in 1..Len(sleeps) : sleeps[k] = retry_delay_seconds * (2 ^ (k - 1))
    /\ Len(sleeps) = Cardinality(FailuresWithAttemptsLeft)
    /\ max_retries >= 1 => Len(sleeps) <= max_retries - 1
    /\ \A k \in 1..Len(attempt_log) :
          attempt_log[k].kind = "return" => Len(sleeps) = k - 1

\* C19 witness: base delay 2 and three retryable failures: the sleeps were 2
\* and 4, and none followed the third attempt
C19_Witness ==
    /\ r_pc = "done"
    /\ max_retries = 3
    /\ retry_delay_seconds = 2
    /\ Len(attempt_log) = 3
    /\ FailuresWithAttemptsLeft = {1, 2}
    /\ RetryableFailure(attempt_log[3])
    /\ sleeps = <<2, 4>>

\* C20: an attempt that returns a successful response is the last one: the
\* call is over with that success, whatever failures came before it and
\* however many attempts are left.
C20_SuccessEndsLoop ==
    \A k \in 1..Len(attempt_log) :
        (attempt_log[k].kind = "return" /\ attempt_log[k].success) =>
            /\ k = Len(attempt_log)
            /\ r_pc = "done"
            /\ response.success
            /\ response.source = "agent"

\* C20 witness: three attempts allowed, the first failed with a retryable
\* error raised by the agent, the second succeeded and no third was made
C20_Witness ==
    /\ max_retries = 3
    /\ Len(attempt_log) = 2
    /\ attempt_log[1].kind = "raise"
    /\ RetryableFailure(attempt_log[1])
    /\ attempt_log[2] = ReturnOutcome(TRUE)
    /\ r_pc = "done"
    /\ response.success

\* the attempts that ran out of time
TimedOutAttempts == { k \in 1..Len(attempt_log) : attempt_log[k].kind = "timeout" }

C27_Original ==
    [][(attempt_log' # attempt_log) => live = 0]_vars

\* the attempts in which analyze_contract returned a failure response
ReturnedFailures ==
    { k \in 1..Len(attempt_log) :
        attempt_log[k].kind = "return" /\ ~attempt_log[k].success }

\* C28: a response returned with success = false is converted and returned
\* as it is: the attempt is the last one, no sleep follows it, the error is
\* not classified and the call reports the response's own error text, also
\* when that text has a retryable token and attempts are left.
C28_ReturnedFailureNotRetried ==
    \A k \in ReturnedFailures :
        /\ k = Len(attempt_log)
        /\ r_pc = "done"
        /\ Len(sleeps) = k - 1
        /\ ~response.success
        /\ response.source = "agent"
        /\ response.error = attempt_log[k].error.msg
        /\ response.attempts_reported = 0

\* C28 witness: three attempts allowed; the first returned a failure whose
\* error text says 'timeout', and the call ended there
C28_Witness ==
    /\ max_retries = 3
    /\ attempt_log = <<ReturnFailureOutcome(msg_invalid_timeout)>>
    /\ is_retryable_error(attempt_log[1].error)
    /\ r_pc = "done"
    /\ sleeps = <<>>
    /\ ~response.success
    /\ response.error = msg_invalid_timeout

\* the slots of the semaphore that are taken
HeldSlots == max_concurrent - semaphore

\* C23: once the semaphore is built, the slots held are exactly those of the
\* tasks inside the guarded section, never fewer than 0 nor more than
\* max_concurrent, and none is held once process_batch has returned or has
\* been cancelled, whether the tasks returned, failed, raised or were
\* cancelled.
C23_GuaranteedRelease ==
    tasks # <<>> =>
        /\ HeldSlots = Cardinality({ k \in 1..Len(tasks) : InSection(k) })
        /\ HeldSlots >= 0
        /\ HeldSlots <= max_concurrent
        /\ b_pc \in {"returned", "cancelled"} => HeldSlots = 0

\* C23 witness: one task raised out of its coroutine and completed, another
\* was cancelled during its analysis, and every slot is free again
C23_Witness ==
    /\ b_pc = "cancelled"
    /\ max_concurrent = 2
    /\ \E k \in 1..Len(tasks) : t_pc[k] = "done" /\ t_return[k].raised
    /\ \E k \in 1..Len(tasks) : t_pc[k] = "cancelled_running"
    /\ semaphore = max_concurrent

\* C24: with max_concurrent >= 1 and no cancellation, every task that waits
\* for a slot eventually gets one, and process_batch eventually returns with
\* every task complete.
C24_BatchProgress ==
    /\ \A k \in 1..MaxContracts :
          (max_concurrent >= 1 /\ k <= Len(t_pc) /\ t_pc[k] = "waiting")
              ~> (k <= Len(t_pc) /\ t_pc[k] # "waiting")
    /\ (max_concurrent >= 1 /\ b_pc = "start")
          ~> (b_pc = "returned" /\ \A k \in 1..Len(t_pc) : t_pc[k] = "done")

\* C24 witness: three tasks shared a single slot and the batch returned
C24_Witness ==
    /\ b_pc = "returned"
    /\ max_concurrent = 1
    /\ Len(tasks) = 3
    /\ \A k \in 1..3 : t_pc[k] = "done"
    /\ semaphore = 1

SuccessIndices ==
    { k \in 1..Len(batch_result.results) : batch_result.results[k].success }

FailureIndices ==
    { k \in 1..Len(batch_result.results) : ~batch_result.results[k].success }

\* C25: the statistics of a completed batch: total_contracts is the number
\* of contracts given, successful_count and failed_count are the numbers of
\* results with and without success, they add up to the total, and
\* success_rate is successful_count / total_contracts * 100.
C25_StatisticsCounts ==
    BatchReturnedNormally =>
        LET st == batch_result.statistics
        IN  /\ st.total_contracts = Len(contracts)
            /\ st.successful_count = Cardinality(SuccessIndices)
            /\ st.failed_count = Cardinality(FailureIndices)
            /\ st.successful_count + st.failed_count = st.total_contracts
            /\ st.success_rate.den = st.total_contracts
            /\ st.success_rate.num = st.successful_count * 100

\* C25 witness: two successes and a validation failure: 2 + 1 = 3, rate 200/3
C25_Witness ==
    /\ BatchReturnedNormally
    /\ Len(contracts) = 3
    /\ SuccessIndices = {1, 3}
    /\ batch_result.results[2].error = msg_contract_must_have
    /\ batch_result.statistics.successful_count = 2
    /\ batch_result.statistics.failed_count = 1
    /\ batch_result.statistics.success_rate = [num |-> 200, den |-> 3]

RECURSIVE SumOfCounts(_, _)
SumOfCounts(h, keys) ==
    IF keys = {} THEN 0
    ELSE LET key == CHOOSE x \in keys : TRUE
         IN  h[key] + SumOfCounts(h, keys \ {key})

\* C26: the contract_types histogram has a key for each contract type of a
\* successful result and for nothing else, each key counts the successful
\* results of that type, and the counts add up to successful_count.
C26_HistogramOverSuccesses ==
    BatchReturnedNormally =>
        LET h == batch_result.statistics.contract_types
        IN  /\ DOMAIN h = { batch_result.results[k].contract_type : k \in SuccessIndices }
            /\ \A ct \in DOMAIN h :
                  h[ct] = Cardinality({ k \in SuccessIndices :
                                          batch_result.results[k].contract_type = ct })
            /\ SumOfCounts(h, DOMAIN h) = batch_result.statistics.successful_count
            /\ \A k \in FailureIndices :
                  batch_result.results[k].contract_type \notin DOMAIN h

\* C26 witness: one success among three results: the histogram is Unknown: 1
C26_Witness ==
    /\ BatchReturnedNormally
    /\ Len(contracts) = 3
    /\ SuccessIndices = {2}
    /\ DOMAIN batch_result.statistics.contract_types = {"Unknown"}
    /\ batch_result.statistics.contract_types["Unknown"] = 1
    /\ batch_result.statistics.failed_count = 2

\* the routed agent function was called and returned a mapping
AgentReturned == agent_result.kind = "returned"

\* C29: orchestrate returns success = true exactly when the request type has
\* a route and the routed agent function returned, whatever the success flag
\* of the mapping it returned, which is passed on unchanged; it returns
\* success = false only for a request type without a route or when the
\* agent function raised.
C29_OrchestrateSuccessFlag ==
    o_pc = "returned" =>
        /\ orch_result.success <=> (request_type \in agent_routes /\ AgentReturned)
        /\ orch_result.success =>
              /\ orch_result.has_agent_result
              /\ orch_result.agent_result = agent_result
              /\ orch_result.routed_to = request_type
        /\ ~orch_result.success =>
              \/ request_type \notin agent_routes /\ o_invoked = <<>>
              \/ /\ request_type \in agent_routes
                 /\ o_invoked = <<request_type>>
                 /\ agent_result = PendingStep

\* C29 witness: the comparison agent returned success = false and the
\* orchestration reports success = true around it
C29_Witness ==
    /\ o_pc = "returned"
    /\ request_type = "compare"
    /\ AgentReturned
    /\ ~agent_result.success
    /\ orch_result.success
    /\ ~orch_result.agent_result.success

RaisedTools == { i \in 1..Len(tool_results) : tool_results[i].kind = "raised" }

\* the field of the analysis that tool i fills
GatewayField(i) ==
    CASE i = 1 -> gw_result.contract_type
      [] i = 2 -> gw_result.parties
      [] i = 3 -> gw_result.pricing
      [] i = 4 -> gw_result.risks

====
